---- MODULE Spec2Model ----
(***************************************************************************)
(* The useEventHistory hook (event poller): its React state, its effects,  *)
(* the polling timer, the fetches in flight and the node it talks to.      *)
(***************************************************************************)
EXTENDS Integers, Sequences, FiniteSets, Bags, TLC

VARIABLES
    mounted,            \* "init" before the first effects run, "mounted", "unmounted"
    watch, enabled, fromBlock,                    \* props that change between renders
    everEnabled,        \* whether enabled has been true in any render (history)
    chainId, eventInAbi, options,                 \* props fixed for one hook instance
    contract,           \* deployedContractData: "none", "addrOnly" (no abi), "full"
    data, dataDefined,  \* useState data: undefined, or the sequence of records
    status, error, isLoading, isFetchingNewEvent, currentBlock,
    pollingRef,         \* pollingRef.current: 0 is null, otherwise a timer id
    timers,             \* the interval timers armed in the event loop
    ops,                \* the bag of asynchronous operations in flight
    head,               \* the node's current block height
    calls,              \* the network calls issued by the latest step
    last,               \* what the latest step was (history)
    pure,               \* inputs and result of a pure-function application
    ledger              \* the chain's state around the Vendor contract

vars == <<mounted, watch, enabled, fromBlock, everEnabled, chainId, eventInAbi,
          options, contract, data, dataDefined, status, error, isLoading,
          isFetchingNewEvent, currentBlock, pollingRef, timers, ops, head, calls,
          last, pure, ledger>>

\* ---------------------------------------------------------------- bounds
MaxBlock == 1
MaxInflight == 2

Hardhat == 31337
OtherChain == 1
FromBlocks == {0, MaxBlock + 1}

Lookups == {"block", "transaction", "receipt"}
NoOptions == [blockData |-> FALSE, transactionData |-> FALSE, receiptData |-> FALSE]
BlockOption == [blockData |-> TRUE, transactionData |-> FALSE, receiptData |-> FALSE]
AllOptions == [blockData |-> TRUE, transactionData |-> TRUE, receiptData |-> TRUE]

\* The configurations a hook instance is constructed with.
Config(c, inAbi, opts, ctr) ==
    [chainId |-> c, eventInAbi |-> inAbi, options |-> opts, contract |-> ctr]

Configs ==
    {Config(OtherChain, TRUE, NoOptions, "full"),
     Config(Hardhat, TRUE, BlockOption, "full"),
     Config(Hardhat, FALSE, NoOptions, "none")}

\* ------------------------------------------------------------------ node
\* The logs the contract has emitted: block b holds NumLogs(b) logs of one
\* transaction, hash b.
NumLogs(b) == IF b % 2 = 1 THEN 2 ELSE 1

RawLog(b, i) == [blockNumber |-> b, transactionHash |-> b, logIndex |-> i]

RECURSIVE LogsUpTo(_, _)
LogsUpTo(lo, hi) ==
    IF hi < lo \/ hi < 1 THEN <<>>
    ELSE LogsUpTo(lo, hi - 1) \o [i \in 1..NumLogs(hi) |-> RawLog(hi, i - 1)]

\* provider.getLogs({fromBlock, toBlock || "latest"}): ascending order.
getLogs(from, to, height) ==
    LogsUpTo(IF from < 1 THEN 1 ELSE from, IF to = 0 \/ to > height THEN height ELSE to)

\* ------------------------------------------------------------ pure parts
Loopback == "http://127.0.0.1:8545"
Configured == "NEXT_PUBLIC_RPC_URL or alchemy"

getProvider(c) == IF c = Hardhat THEN Loopback ELSE Configured

\* The provider getEventsWithEthers builds.
EventsProvider == getProvider(Hardhat)

Requested(opts) ==
    (IF opts.blockData THEN {"block"} ELSE {})
        \cup (IF opts.transactionData THEN {"transaction"} ELSE {})
        \cup (IF opts.receiptData THEN {"receipt"} ELSE {})

Lookup(wanted, name, failed) == IF wanted /\ name \notin failed THEN "data" ELSE "null"

\* One log's eventData; failed is the set of lookups that throw for this log.
EventData(log, opts, failed) ==
    [blockNumber |-> log.blockNumber, transactionHash |-> log.transactionHash,
     logIndex |-> log.logIndex,
     blockData |-> Lookup(opts.blockData, "block", failed),
     transactionData |-> Lookup(opts.transactionData, "transaction", failed),
     receiptData |-> Lookup(opts.receiptData, "receipt", failed)]

\* Faulty variant: the event is not looked up in the ABI before the request.
EventAbiLookupSkipped(inAbi) == "getLogs"

\* The synchronous part of getEventsWithEthers, up to the getLogs request.
EventAbiLookup(inAbi) == IF inAbi THEN "getLogs" ELSE "NotFound"

\* Faulty variant: the lookups are not wrapped in try/catch, so one that throws
\* rejects the whole Promise.all.
ParseAndEnrichNoCatch(rpcOk, logs, opts, fails) ==
    IF ~rpcOk THEN [err |-> "Rpc", events |-> <<>>]
    ELSE IF \E i \in 1..Len(logs) : fails[i] \cap Requested(opts) # {}
    THEN [err |-> "Lookup", events |-> <<>>]
    ELSE [err |-> "none",
          events |-> [i \in 1..Len(logs) |-> EventData(logs[i], opts, fails[i])]]

\* The rest of getEventsWithEthers once the node has answered getLogs;
\* fails[i] is the set of lookups that throw for logs[i].
ParseAndEnrich(rpcOk, logs, opts, fails) ==
    IF ~rpcOk THEN [err |-> "Rpc", events |-> <<>>]
    ELSE [err |-> "none",
          events |-> [i \in 1..Len(logs) |-> EventData(logs[i], opts, fails[i])]]

Reverse(s) == [i \in 1..Len(s) |-> s[Len(s) + 1 - i]]

Key(e) == <<e.transactionHash, e.logIndex>>

Keys(s) == {Key(s[i]) : i \in 1..Len(s)}

RECURSIVE Filter(_, _)
Filter(s, existing) ==
    IF s = <<>> THEN <<>>
    ELSE (IF Key(Head(s)) \in existing THEN <<>> ELSE <<Head(s)>>)
             \o Filter(Tail(s), existing)

\* Faulty variant: the merge prepends without filtering.
MergeEventsNoFilter(prevDefined, prevData, processedEvents) ==
    IF ~prevDefined THEN processedEvents ELSE processedEvents \o prevData

\* Faulty variant: the merge filters the held records against the fetched ones
\* (the two sides of the filter exchanged).
MergeEventsFilterHeld(prevDefined, prevData, processedEvents) ==
    IF ~prevDefined THEN processedEvents
    ELSE processedEvents \o Filter(prevData, Keys(processedEvents))

\* setData(prevData => ...) of a watch fetch.
MergeEvents(prevDefined, prevData, processedEvents) ==
    IF ~prevDefined THEN processedEvents
    ELSE Filter(processedEvents, Keys(prevData)) \o prevData

\* ------------------------------------------------------------ hook state
\* What a step did: refetch was called, fetchEvents went past its guard, a
\* fetch came to its end ("success", or the error it failed with), and how many
\* fetched records its merge left out.
Quiet == [refetch |-> FALSE, ran |-> FALSE, done |-> "-", dropped |-> 0]

\* The state a handler reads and writes, threaded through its calls.
Hook ==
    [data |-> data, dataDefined |-> dataDefined, status |-> status, error |-> error,
     isLoading |-> isLoading, isFetchingNewEvent |-> isFetchingNewEvent,
     currentBlock |-> currentBlock, pollingRef |-> pollingRef, timers |-> timers,
     ops |-> ops, calls |-> {}, last |-> Quiet]

Call(kind, origin, endpoint) == [kind |-> kind, origin |-> origin, endpoint |-> endpoint]

Op(kind, phase, from, to, logs) ==
    [kind |-> kind, phase |-> phase, from |-> from, to |-> to, logs |-> logs]

Start(bag, op) == bag (+) SetToBag({op})

Finish(bag, op) == bag (-) SetToBag({op})

Inflight == BagCardinality(ops)

\* Faulty variant: a failed fetch clears the data.
FetchFailedClearsData(h, err, live) ==
    IF live THEN [h EXCEPT !.error = err, !.status = "error", !.isLoading = FALSE,
                           !.data = <<>>, !.dataDefined = FALSE, !.last.done = err]
    ELSE [h EXCEPT !.last.done = err]

\* catch and finally of fetchEvents; live is false once the hook is unmounted,
\* when React drops state updates.
FetchFailed(h, err, live) ==
    IF live THEN [h EXCEPT !.error = err, !.status = "error", !.isLoading = FALSE,
                           !.last.done = err]
    ELSE [h EXCEPT !.last.done = err]

\* Faulty variant: the result of a fetch is stored whether or not the hook is
\* still mounted.
FetchSucceededEvenUnmounted(h, to, events, live) ==
    [h EXCEPT !.data = IF to # 0 THEN MergeEvents(h.dataDefined, h.data, Reverse(events))
                       ELSE Reverse(events),
              !.dataDefined = TRUE, !.status = "success", !.isLoading = FALSE,
              !.last.done = "success"]

\* The success path of fetchEvents once getEventsWithEthers has returned.
FetchSucceeded(h, to, events, live) ==
    LET processedEvents == Reverse(events)
    IN  IF ~live THEN [h EXCEPT !.last.done = "success"]
        ELSE IF to # 0
        THEN [h EXCEPT !.isFetchingNewEvent = FALSE,
                       !.data = MergeEvents(h.dataDefined, h.data, processedEvents),
                       !.dataDefined = TRUE, !.status = "success", !.isLoading = FALSE,
                       !.last.done = "success",
                       !.last.dropped =
                           Len(h.data) + Len(processedEvents)
                               - Len(MergeEvents(TRUE, h.data, processedEvents))]
        ELSE [h EXCEPT !.data = processedEvents, !.dataDefined = TRUE,
                       !.status = "success", !.isLoading = FALSE,
                       !.last.done = "success"]

\* fetchEvents up to its first suspension: the guard, setError(null), the ABI
\* lookup and the getLogs request.
fetchEvents(h, ctr, kind, from, to, live) ==
    IF ctr # "full" THEN h
    ELSE LET h1 == IF live THEN [h EXCEPT !.error = "null", !.last.ran = TRUE]
                   ELSE [h EXCEPT !.last.ran = TRUE]
         IN  IF EventAbiLookup(eventInAbi) = "NotFound"
             THEN FetchFailed(h1, "NotFound", live)
             ELSE [h1 EXCEPT !.ops = Start(@, Op(kind, "logs", from, to, <<>>)),
                             !.calls = @ \cup {Call("getLogs", kind, EventsProvider)}]

\* pollForNewEvents up to its first suspension: getCurrentBlock's request.
pollForNewEvents(h, from) ==
    [h EXCEPT !.ops = Start(@, Op("tick", "height", from, 0, <<>>)),
              !.calls = @ \cup {Call("getBlockNumber", "poll", getProvider(chainId))}]

\* The initial fetch effect.
InitialFetchEffect(h, en, ctr, from) ==
    IF ~en \/ ctr = "none" THEN h
    ELSE fetchEvents([h EXCEPT !.isLoading = TRUE], ctr, "initial", from, 0, TRUE)

\* Faulty variant: the ref is reset but the interval is not cleared.
ClearPollingRefOnly(h) == [h EXCEPT !.pollingRef = 0]

\* clearInterval(pollingRef.current); pollingRef.current = null
ClearPolling(h) ==
    IF h.pollingRef # 0
    THEN [h EXCEPT !.timers = @ \ {h.pollingRef}, !.pollingRef = 0]
    ELSE h

\* The id setInterval returns: one no armed timer has.
FreshTimer(h) ==
    CHOOSE t \in 1..(Cardinality(h.timers) + 1) :
        t \notin h.timers /\ \A u \in 1..(t - 1) : u \in h.timers

\* The watch effect: its guard, the initial poll and setInterval.
WatchEffect(h, w, en, ctr, from) ==
    IF ~w \/ ~en \/ ctr = "none" THEN ClearPolling(h)
    ELSE LET h1 == pollForNewEvents(h, from)
             t == FreshTimer(h1)
         IN  [h1 EXCEPT !.timers = @ \cup {t}, !.pollingRef = t]

\* A commit whose dependencies changed: the cleanup of the watch effect, then
\* the effects in their order of declaration.
RunEffects(h, runInitial, w, en, ctr, from) ==
    LET h1 == ClearPolling(h)
        h2 == IF runInitial THEN InitialFetchEffect(h1, en, ctr, from) ELSE h1
    IN  WatchEffect(h2, w, en, ctr, from)

\* How many operations a commit starts.
Starts(runInitial, w, en, ctr) ==
    (IF runInitial /\ en /\ ctr = "full" /\ eventInAbi THEN 1 ELSE 0)
        + (IF w /\ en /\ ctr # "none" THEN 1 ELSE 0)

Commit(h) ==
    /\ data' = h.data
    /\ dataDefined' = h.dataDefined
    /\ status' = h.status
    /\ error' = h.error
    /\ isLoading' = h.isLoading
    /\ isFetchingNewEvent' = h.isFetchingNewEvent
    /\ currentBlock' = h.currentBlock
    /\ pollingRef' = h.pollingRef
    /\ timers' = h.timers
    /\ ops' = h.ops
    /\ calls' = h.calls
    /\ last' = h.last

Live == mounted = "mounted"

\* ------------------------------------------------------------------ init
\* The hook as constructed, on a chain of the given height.
HookInit(height) ==
    /\ mounted = "init"
    /\ watch \in BOOLEAN
    /\ enabled \in BOOLEAN
    /\ everEnabled = enabled
    /\ fromBlock = 0
    /\ \E cfg \in Configs :
        /\ chainId = cfg.chainId
        /\ eventInAbi = cfg.eventInAbi
        /\ options = cfg.options
        /\ contract = cfg.contract
    /\ data = <<>>
    /\ dataDefined = FALSE
    /\ status = "idle"
    /\ error = "null"
    /\ isLoading = FALSE
    /\ isFetchingNewEvent = FALSE
    /\ currentBlock = 0
    /\ pollingRef = 0
    /\ timers = {}
    /\ ops = EmptyBag
    /\ head = height
    /\ calls = {}
    /\ last = Quiet
    /\ pure = <<>>
    /\ ledger = <<>>

Init == HookInit(0)

Props == <<watch, enabled, fromBlock>>
Fixed == <<chainId, eventInAbi, options, everEnabled, pure, ledger>>

\* --------------------------------------------------------------- actions
\* The first commit: both effects run.
Mount ==
    /\ mounted = "init"
    /\ mounted' = "mounted"
    /\ Commit(RunEffects(Hook, TRUE, watch, enabled, contract, fromBlock))
    /\ UNCHANGED <<Props, Fixed, contract, head>>

ToggleWatch ==
    /\ Live
    /\ Inflight + Starts(FALSE, ~watch, enabled, contract) <= MaxInflight
    /\ watch' = ~watch
    /\ Commit(RunEffects(Hook, FALSE, ~watch, enabled, contract, fromBlock))
    /\ UNCHANGED <<mounted, enabled, fromBlock, Fixed, contract, head>>

ToggleEnabled ==
    /\ Live
    /\ Inflight + Starts(TRUE, watch, ~enabled, contract) <= MaxInflight
    /\ enabled' = ~enabled
    /\ everEnabled' = TRUE
    /\ Commit(RunEffects(Hook, TRUE, watch, ~enabled, contract, fromBlock))
    /\ UNCHANGED <<mounted, watch, fromBlock, chainId, eventInAbi, options, pure,
                   ledger, contract, head>>

ChangeFromBlock ==
    /\ Live
    /\ Inflight + Starts(TRUE, watch, enabled, contract) <= MaxInflight
    /\ \E f \in FromBlocks :
        /\ f # fromBlock
        /\ fromBlock' = f
        /\ Commit(RunEffects(Hook, TRUE, watch, enabled, contract, f))
    /\ UNCHANGED <<mounted, watch, enabled, Fixed, contract, head>>

\* pollingInterval changes to another period. The period is the interval
\* timer's and is not kept here: all a change does is run the watch effect again.
ChangePollingInterval ==
    /\ Live
    /\ Inflight + Starts(FALSE, watch, enabled, contract) <= MaxInflight
    /\ Commit(RunEffects(Hook, FALSE, watch, enabled, contract, fromBlock))
    /\ UNCHANGED <<mounted, watch, enabled, fromBlock, Fixed, contract, head>>

\* useDeployedContractInfo resolves.
ContractLoaded ==
    /\ Live
    /\ contract = "none"
    /\ \E c \in {"addrOnly", "full"} :
        /\ Inflight + Starts(TRUE, watch, enabled, c) <= MaxInflight
        /\ contract' = c
        /\ Commit(RunEffects(Hook, TRUE, watch, enabled, c, fromBlock))
    /\ UNCHANGED <<mounted, Props, Fixed, head>>

\* Unmount: the watch effect's cleanup and the unmount cleanup.
UnmountCleanup(h) == [h EXCEPT !.timers = @ \ {h.pollingRef}]

\* The props go with the component: nothing reads them afterwards (an operation
\* in flight goes on with the values it captured).
Unmount ==
    /\ Live
    /\ mounted' = "unmounted"
    /\ Commit(UnmountCleanup(ClearPolling(Hook)))
    /\ watch' = FALSE
    /\ enabled' = FALSE
    /\ fromBlock' = 0
    /\ UNCHANGED <<Fixed, contract, head>>

\* Faulty variant: refetch does not look at enabled.
refetchIgnoringEnabled(h) ==
    IF contract = "none" THEN h
    ELSE fetchEvents([h EXCEPT !.isLoading = TRUE], contract, "refetch", fromBlock, 0, TRUE)

\* Faulty variant: refetch leaves the work to the polling timer when one is armed.
refetchUnlessPolling(h) ==
    IF ~enabled \/ contract = "none" \/ h.pollingRef # 0 THEN h
    ELSE fetchEvents([h EXCEPT !.isLoading = TRUE], contract, "refetch", fromBlock, 0, TRUE)

\* refetch()
refetch(h) ==
    IF ~enabled \/ contract = "none" THEN h
    ELSE fetchEvents([h EXCEPT !.isLoading = TRUE], contract, "refetch", fromBlock, 0, TRUE)

Refetch ==
    /\ Live
    /\ Inflight < MaxInflight
    /\ Commit(refetch([Hook EXCEPT !.last.refetch = TRUE]))
    /\ UNCHANGED <<mounted, Props, Fixed, contract, head>>

\* The interval timer fires.
TimerFire ==
    /\ \E t \in timers : TRUE
    /\ Inflight < MaxInflight
    /\ Commit(pollForNewEvents(Hook, fromBlock))
    /\ UNCHANGED <<mounted, Props, Fixed, contract, head>>

\* getCurrentBlock's request is answered, and pollForNewEvents goes on.
AfterBlockNumber(h, op, ok, blockNumber, live) ==
    IF ~ok THEN h
    ELSE LET h1 == IF live THEN [h EXCEPT !.currentBlock = blockNumber] ELSE h
         IN  IF blockNumber = 0 \/ blockNumber <= op.from THEN h1
             ELSE fetchEvents(IF live THEN [h1 EXCEPT !.isFetchingNewEvent = TRUE] ELSE h1,
                              contract, "poll", op.from, blockNumber, live)

BlockNumberReturns ==
    \E op \in BagToSet(ops), ok \in BOOLEAN :
        /\ op.kind = "tick"
        /\ Commit(AfterBlockNumber([Hook EXCEPT !.ops = Finish(@, op)], op, ok, head, Live))
        /\ UNCHANGED <<mounted, Props, Fixed, contract, head>>

FailPatterns(logs) ==
    {[i \in 1..Len(logs) |-> F] : F \in SUBSET Requested(options)}

\* getLogs is answered: the fetch fails, completes, or goes on to the lookups.
AfterLogs(h, op, rpcOk, logs, live) ==
    IF ~rpcOk THEN FetchFailed(h, ParseAndEnrich(FALSE, logs, options, <<>>).err, live)
    ELSE IF Requested(options) = {} \/ logs = <<>>
    THEN FetchSucceeded(h, op.to,
                        ParseAndEnrich(TRUE, logs, options, [i \in 1..Len(logs) |-> {}]).events,
                        live)
    ELSE [h EXCEPT !.ops = Start(@, Op(op.kind, "enrich", op.from, op.to, logs)),
                   !.calls = @ \cup {Call("enrich", op.kind, EventsProvider)}]

LogsReturn ==
    \E op \in BagToSet(ops), rpcOk \in BOOLEAN :
        /\ op.phase = "logs"
        /\ LET logs == getLogs(op.from, op.to, head)
               h == AfterLogs([Hook EXCEPT !.ops = Finish(@, op)], op, rpcOk, logs, Live)
           IN  Commit(h)
        /\ UNCHANGED <<mounted, Props, Fixed, contract, head>>

\* The lookups of every log are settled: getEventsWithEthers returns.
EnrichReturn ==
    \E op \in BagToSet(ops) :
        /\ op.phase = "enrich"
        /\ \E fails \in FailPatterns(op.logs) :
            Commit(FetchSucceeded([Hook EXCEPT !.ops = Finish(@, op)], op.to,
                                  ParseAndEnrich(TRUE, op.logs, options, fails).events,
                                  Live))
        /\ UNCHANGED <<mounted, Props, Fixed, contract, head>>

\* The chain grows by one block, up to the given height.
Mines(limit) ==
    /\ head < limit
    /\ head' = head + 1
    /\ calls' = {}
    /\ last' = Quiet
    /\ UNCHANGED <<mounted, Props, Fixed, contract, data, dataDefined, status, error,
                   isLoading, isFetchingNewEvent, currentBlock, pollingRef, timers, ops>>

NodeMines == Mines(MaxBlock)

Next ==
    \/ Mount
    \/ ToggleWatch
    \/ ToggleEnabled
    \/ ChangeFromBlock
    \/ ChangePollingInterval
    \/ ContractLoaded
    \/ Unmount
    \/ Refetch
    \/ TimerFire
    \/ BlockNumberReturns
    \/ LogsReturn
    \/ EnrichReturn
    \/ NodeMines

Spec == Init /\ [][Next]_vars

\* The hook on a chain that has a block of logs when the hook is constructed
\* and grows by MaxBlock blocks from there.
InitGrown == HookInit(1)

NodeMinesOn == Mines(MaxBlock + 1)

NextGrown ==
    \/ Mount
    \/ ToggleWatch
    \/ ToggleEnabled
    \/ ChangeFromBlock
    \/ ChangePollingInterval
    \/ ContractLoaded
    \/ Unmount
    \/ Refetch
    \/ TimerFire
    \/ BlockNumberReturns
    \/ LogsReturn
    \/ EnrichReturn
    \/ NodeMinesOn

SpecGrown == InitGrown /\ [][NextGrown]_vars

\* ------------------------------------------- getEventsWithEthers, applied
\* A specification that applies the body of getEventsWithEthers to every
\* answer of the node within the bounds: the logs, the options and, for each
\* log, the lookups that throw.
HookAtRest ==
    /\ mounted = "init"
    /\ watch = FALSE
    /\ enabled = FALSE
    /\ everEnabled = FALSE
    /\ fromBlock = 0
    /\ chainId = Hardhat
    /\ eventInAbi = TRUE
    /\ options = NoOptions
    /\ contract = "full"
    /\ data = <<>>
    /\ dataDefined = FALSE
    /\ status = "idle"
    /\ error = "null"
    /\ isLoading = FALSE
    /\ isFetchingNewEvent = FALSE
    /\ currentBlock = 0
    /\ pollingRef = 0
    /\ timers = {}
    /\ ops = EmptyBag
    /\ head = 0
    /\ calls = {}
    /\ last = Quiet

OptionSets == [blockData : BOOLEAN, transactionData : BOOLEAN, receiptData : BOOLEAN]

NoResult == [err |-> "-", events |-> <<>>]

InitEnrich ==
    /\ HookAtRest
    /\ ledger = <<>>
    /\ \E height \in 0..MaxBlock, opts \in OptionSets, rpcOk \in BOOLEAN :
        LET logs == getLogs(0, 0, height)
        IN  \E fails \in [1..Len(logs) -> SUBSET Lookups] :
                pure = [phase |-> "called", rpcOk |-> rpcOk, logs |-> logs,
                        options |-> opts, fails |-> fails, result |-> NoResult]

Enrich ==
    /\ pure.phase = "called"
    /\ pure' = [pure EXCEPT !.phase = "returned",
                            !.result = ParseAndEnrich(pure.rpcOk, pure.logs, pure.options,
                                                      pure.fails)]
    /\ UNCHANGED <<mounted, Props, everEnabled, chainId, eventInAbi, options, contract, data,
                   dataDefined, status, error, isLoading, isFetchingNewEvent,
                   currentBlock, pollingRef, timers, ops, head, calls, last, ledger>>

NextEnrich == Enrich

SpecEnrich == InitEnrich /\ [][NextEnrich]_vars

\* ------------------------------------------------- the merge, applied
\* A specification that applies the setData callback of a watch fetch to
\* every pair of held records and fetched records within the bounds. Both are
\* what fetches produce: the node's logs of a range of blocks, newest first.
MergeBlocks == 4

Ranges ==
    {<<>>} \cup {Reverse(LogsUpTo(lo, hi)) : lo \in 1..MergeBlocks, hi \in 1..MergeBlocks}

InitMerge ==
    /\ HookAtRest
    /\ ledger = <<>>
    /\ \E prevDefined \in BOOLEAN, prevData \in Ranges, processedEvents \in Ranges :
        /\ ~prevDefined => prevData = <<>>
        /\ pure = [phase |-> "called", prevDefined |-> prevDefined, prevData |-> prevData,
                   processedEvents |-> processedEvents, result |-> <<>>]

Merge ==
    /\ pure.phase = "called"
    /\ pure' = [pure EXCEPT !.phase = "merged",
                            !.result = MergeEvents(pure.prevDefined, pure.prevData,
                                                   pure.processedEvents)]
    /\ UNCHANGED <<mounted, Props, everEnabled, chainId, eventInAbi, options, contract, data,
                   dataDefined, status, error, isLoading, isFetchingNewEvent,
                   currentBlock, pollingRef, timers, ops, head, calls, last, ledger>>

NextMerge == Merge

SpecMerge == InitMerge /\ [][NextMerge]_vars

\* ------------------------------------------------ the filters, applied
\* The indexed inputs of the event, in the order of the ABI, and the values a
\* filter can ask for.
EventInputs == <<"from", "to", "tokenId">>

FilterValues == {"0xA", "0xB"}

\* A filters object: its entries (parameterName: value) in insertion order,
\* no name twice.
FilterObjects ==
    {f \in UNION {[1..n -> {<<name, v>> : name \in {EventInputs[k] : k \in 1..Len(EventInputs)},
                                          v \in FilterValues}] : n \in 0..Len(EventInputs)} :
        \A i, j \in 1..Len(f) : i # j => f[i][1] # f[j][1]}

\* Object.values(filters)
ObjectValues(filters) == [i \in 1..Len(filters) |-> filters[i][2]]

\* contract.filters[eventName](...filterArgs).topics after the event's
\* signature: the k-th argument constrains the k-th input, an input without
\* an argument is left open.
FilterTopics(filterArgs) ==
    [k \in 1..Len(EventInputs) |-> IF k <= Len(filterArgs) THEN filterArgs[k] ELSE "null"]

\* The topic filter getEventsWithEthers sends for a filters object.
EventFilter(filters) == FilterTopics(ObjectValues(filters))

InitFilter ==
    /\ HookAtRest
    /\ ledger = <<>>
    /\ \E filters \in FilterObjects :
        pure = [phase |-> "called", filters |-> filters, topics |-> <<>>]

ApplyFilter ==
    /\ pure.phase = "called"
    /\ pure' = [pure EXCEPT !.phase = "sent", !.topics = EventFilter(pure.filters)]
    /\ UNCHANGED <<mounted, Props, everEnabled, chainId, eventInAbi, options, contract, data,
                   dataDefined, status, error, isLoading, isFetchingNewEvent,
                   currentBlock, pollingRef, timers, ops, head, calls, last, ledger>>

NextFilter == ApplyFilter

SpecFilter == InitFilter /\ [][NextFilter]_vars

\* ---------------------------------------------------------------- Vendor
\* Amounts are in wei and in the token's smallest unit, as the contract sees
\* them. One ether is 10^18 wei and one token 10^18 units on the chain; here
\* both are WeiPerEther, small enough to enumerate.
tokensPerEth == 100
WeiPerEther == 3
MaxSell == 3

Deployer == "deployer"
Alice == "alice"
VendorAddress == "vendor"
Users == {Deployer, Alice}

SellAmounts == {k * (tokensPerEth \div 2) : k \in 1..MaxSell}

\* An approval is withdrawn, or given for the largest sale.
ApproveAmounts == {0, MaxSell * (tokensPerEth \div 2)}

\* yourToken.transfer called by the Vendor: it reverts when the holder has
\* fewer tokens than amount.
transfer(w, from, to, amount) ==
    IF w.tok[from] < amount THEN [ok |-> FALSE, w |-> w]
    ELSE [ok |-> TRUE, w |-> [w EXCEPT !.tok[from] = @ - amount, !.tok[to] = @ + amount]]

\* yourToken.transferFrom called by the Vendor as spender: it reverts when the
\* allowance or the balance is below amount.
transferFrom(w, from, to, amount) ==
    IF w.allowance[from] < amount \/ w.tok[from] < amount THEN [ok |-> FALSE, w |-> w]
    ELSE [ok |-> TRUE,
          w |-> [w EXCEPT !.allowance[from] = @ - amount,
                          !.tok[from] = @ - amount, !.tok[to] = @ + amount]]

\* payable(to).transfer(amount) by the Vendor: it reverts when the Vendor holds
\* less than amount.
SendEth(w, to, amount) ==
    IF w.eth[VendorAddress] < amount THEN [ok |-> FALSE, w |-> w]
    ELSE [ok |-> TRUE,
          w |-> [w EXCEPT !.eth[VendorAddress] = @ - amount, !.eth[to] = @ + amount]]

BuyTokensEvent(buyer, amountOfETH, amountOfTokens) ==
    [name |-> "BuyTokens", who |-> buyer, amountOfETH |-> amountOfETH,
     amountOfTokens |-> amountOfTokens]

SellTokensEvent(seller, amountOfTokens, amountOfETH) ==
    [name |-> "SellTokens", who |-> seller, amountOfETH |-> amountOfETH,
     amountOfTokens |-> amountOfTokens]

\* A call that reverts: the state is the one before the call, nothing is
\* emitted.
Reverted(w) == [ok |-> FALSE, w |-> w, events |-> <<>>]

Returned(w, events) == [ok |-> TRUE, w |-> w, events |-> events]

\* Faulty variant: the rate is left out of tokensToBuy.
buyTokensWithoutRate(w, sender, value) ==
    LET paid == [w EXCEPT !.eth[sender] = @ - value, !.eth[VendorAddress] = @ + value]
        tokensToBuy == value
        sent == transfer(paid, VendorAddress, sender, tokensToBuy)
    IN  IF ~sent.ok THEN Reverted(w)
        ELSE Returned(sent.w, <<BuyTokensEvent(sender, value, tokensToBuy)>>)

\* buyTokens() with msg.value = value, the value having been moved to the
\* Vendor on entry.
buyTokens(w, sender, value) ==
    LET paid == [w EXCEPT !.eth[sender] = @ - value, !.eth[VendorAddress] = @ + value]
        tokensToBuy == value * tokensPerEth
        sent == transfer(paid, VendorAddress, sender, tokensToBuy)
    IN  IF ~sent.ok THEN Reverted(w)
        ELSE Returned(sent.w, <<BuyTokensEvent(sender, value, tokensToBuy)>>)

\* Faulty variant: withdraw without onlyOwner.
withdrawByAnyone(w, sender) ==
    LET sent == SendEth(w, w.owner, w.eth[VendorAddress])
    IN  IF ~sent.ok THEN Reverted(w) ELSE Returned(sent.w, <<>>)

\* Faulty variant: withdraw leaves one wei behind.
withdrawAllButOne(w, sender) ==
    IF sender # w.owner THEN Reverted(w)
    ELSE LET balance == w.eth[VendorAddress]
             sent == SendEth(w, w.owner, IF balance > 0 THEN balance - 1 ELSE 0)
         IN  IF ~sent.ok THEN Reverted(w) ELSE Returned(sent.w, <<>>)

\* withdraw() onlyOwner
withdraw(w, sender) ==
    IF sender # w.owner THEN Reverted(w)
    ELSE LET sent == SendEth(w, w.owner, w.eth[VendorAddress])
         IN  IF ~sent.ok THEN Reverted(w) ELSE Returned(sent.w, <<>>)

\* Faulty variant: a failed payment is ignored (a send whose result is not
\* looked at), the tokens having been pulled.
sellTokensUncheckedSend(w, sender, amount) ==
    LET pulled == transferFrom(w, sender, VendorAddress, amount)
    IN  IF ~pulled.ok THEN Reverted(w)
        ELSE LET sent == SendEth(pulled.w, sender, amount \div tokensPerEth)
             IN  Returned(sent.w, <<SellTokensEvent(sender, amount, amount \div tokensPerEth)>>)

\* Faulty variant: the payment is rounded up.
sellTokensRoundingUp(w, sender, amount) ==
    LET pulled == transferFrom(w, sender, VendorAddress, amount)
        price == (amount + tokensPerEth - 1) \div tokensPerEth
    IN  IF ~pulled.ok THEN Reverted(w)
        ELSE LET sent == SendEth(pulled.w, sender, price)
             IN  IF ~sent.ok THEN Reverted(w)
                 ELSE Returned(sent.w, <<SellTokensEvent(sender, amount, price)>>)

\* sellTokens(_amount)
sellTokens(w, sender, amount) ==
    LET pulled == transferFrom(w, sender, VendorAddress, amount)
    IN  IF ~pulled.ok THEN Reverted(w)
        ELSE LET sent == SendEth(pulled.w, sender, amount \div tokensPerEth)
             IN  IF ~sent.ok THEN Reverted(w)
                 ELSE Returned(sent.w,
                               <<SellTokensEvent(sender, amount, amount \div tokensPerEth)>>)

\* The latest transaction: the function, its sender, its value or amount.
Tx(fn, sender, arg, ok) == [fn |-> fn, sender |-> sender, arg |-> arg, ok |-> ok]

\* The state after deployment: the deployer owns the Vendor and has stocked it
\* with tokens; Alice holds one ether.
InitVendor ==
    /\ HookAtRest
    /\ pure = <<>>
    /\ ledger = [world |-> [eth |-> (Deployer :> 1 @@ Alice :> WeiPerEther
                                         @@ VendorAddress :> 0),
                            tok |-> (Deployer :> 0 @@ Alice :> 0
                                         @@ VendorAddress :> tokensPerEth * WeiPerEther),
                            allowance |-> (Deployer :> 0 @@ Alice :> 0),
                            owner |-> Deployer],
                 call |-> Tx("constructor", Deployer, 0, TRUE),
                 emitted |-> <<>>]

HookVars ==
    <<mounted, Props, everEnabled, chainId, eventInAbi, options, contract, data,
      dataDefined, status, error, isLoading, isFetchingNewEvent, currentBlock,
      pollingRef, timers, ops, head, calls, last, pure>>

Mined(fn, sender, arg, r) ==
    /\ ledger' = [world |-> r.w, call |-> Tx(fn, sender, arg, r.ok), emitted |-> r.events]
    /\ UNCHANGED HookVars

BuyTokens ==
    \E sender \in Users :
        \E value \in 0..ledger.world.eth[sender] :
            Mined("buyTokens", sender, value, buyTokens(ledger.world, sender, value))

SellTokens ==
    \E sender \in Users, amount \in SellAmounts :
        Mined("sellTokens", sender, amount, sellTokens(ledger.world, sender, amount))

Withdraw ==
    \E sender \in Users :
        Mined("withdraw", sender, 0, withdraw(ledger.world, sender))

\* yourToken.approve(vendor, amount) by a holder.
Approve ==
    \E sender \in Users, amount \in ApproveAmounts :
        Mined("approve", sender, amount,
              Returned([ledger.world EXCEPT !.allowance[sender] = amount], <<>>))

\* transferOwnership(newOwner) by the owner.
TransferOwnership ==
    \E newOwner \in Users \ {ledger.world.owner} :
        Mined("transferOwnership", ledger.world.owner, 0,
              Returned([ledger.world EXCEPT !.owner = newOwner], <<>>))

NextVendor ==
    \/ BuyTokens
    \/ SellTokens
    \/ Withdraw
    \/ Approve
    \/ TransferOwnership

SpecVendor == InitVendor /\ [][NextVendor]_vars

\* ---------------------------------------------------------------- claims
OpsInFlight == BagToSet(ops)

Errors == {"Rpc", "NotFound"}

\* C1: in every reachable state the data sequence holds no two records with
\* the same (transactionHash, logIndex) pair.
C1_NoDuplicateKeys ==
    \A i, j \in 1..Len(data) : i # j => Key(data[i]) # Key(data[j])

\* C1 witness: a watch fetch has just been merged into held records, and the
\* merge left out records whose key was already held.
C1_Witness ==
    /\ Live
    /\ last.done = "success"
    /\ last.dropped > 0
    /\ Len(data) > 1

\* C2: a fetch that fails while the hook is mounted stores its error, sets
\* status to "error" and leaves the data as it was before the step.
C2_FailureKeepsData ==
    [][(last'.done \in Errors /\ mounted' = "mounted")
          => /\ error' = last'.done
             /\ status' = "error"
             /\ data' = data
             /\ dataDefined' = dataDefined]_vars

\* C2 witness: a fetch has just failed at the node while records were held.
C2_Witness ==
    /\ Live
    /\ last.done = "Rpc"
    /\ status = "error"
    /\ error = "Rpc"
    /\ dataDefined
    /\ Len(data) > 0

\* C3 (as claimed): a network call that comes from polling is only ever issued
\* while watch is on and the hook is mounted.
C3_NoPollCallOnceWatchOff ==
    \A c \in calls : c.origin = "poll" => (watch /\ Live)

\* C3 (amended): no poll tick starts once watch is off or the hook is torn
\* down: a block-height query is only ever issued while watch is on and the
\* hook is mounted. (A tick in flight goes on to its log query and lookups.)
C3_NoTickOnceWatchOff ==
    \A c \in calls : c.kind = "getBlockNumber" => (watch /\ enabled /\ Live)

\* C3 witness: watch is off and a tick that was in flight has just gone on to
\* its log query.
C3_Witness ==
    /\ Live
    /\ ~watch
    /\ timers = {}
    /\ \E c \in calls : c.origin = "poll" /\ c.kind = "getLogs"

\* C4: at most one interval timer is armed, and none is while watch is off,
\* enabled is off, the contract address is missing or the hook is not mounted.
C4_OneTimerOnlyWhileWatching ==
    /\ Cardinality(timers) <= 1
    /\ (~watch \/ ~enabled \/ contract = "none" \/ ~Live) => timers = {}

\* C4 witness: watch has been switched off while a tick of the timer's was
\* still in flight, and no timer is left.
C4_Witness ==
    /\ Live
    /\ ~watch
    /\ timers = {}
    /\ \E op \in OpsInFlight : op.kind = "tick"

\* C5 (as claimed): while the initial full-range fetch is in flight, status is
\* "loading".
C5_LoadingWhileFetching ==
    (Live /\ \E op \in OpsInFlight : op.kind = "initial") => status = "loading"

\* Whether the step was a refetch that ran the full-range fetch: fetchEvents
\* went past its guard and, the event being in the ABI, asked the node for the
\* logs from fromBlock to latest.
RefetchRan ==
    /\ last.ran
    /\ eventInAbi =>
        /\ Op("refetch", "logs", fromBlock, 0, <<>>) \in OpsInFlight
        /\ Call("getLogs", "refetch", EventsProvider) \in calls
    /\ ~eventInAbi => last.done = "NotFound"

\* C6 (as claimed): whenever refetch is called, in any state, the full-range
\* fetch is run.
C6_RefetchAlwaysRuns == last.refetch => RefetchRan

\* C6 (amended): whenever refetch is called while the hook is enabled and the
\* deployed contract's address and ABI are there, the full-range fetch is run,
\* whatever the polling timer is doing.
C6_RefetchRunsWhenEnabled ==
    (last.refetch /\ enabled /\ contract = "full") => RefetchRan

\* C6 witness: refetch has been called with the timer armed and a tick in
\* flight, and its log query is out.
C6_Witness ==
    /\ last.refetch
    /\ RefetchRan
    /\ eventInAbi
    /\ timers # {}
    /\ \E op \in OpsInFlight : op.kind = "tick"

\* C7 (as claimed): while the hook is mounted with enabled false, no network
\* call is issued and no timer is armed, and a hook that was never enabled is
\* idle with no data.
C7_DisabledHookIsSilent ==
    (Live /\ ~enabled) =>
        /\ calls = {}
        /\ timers = {}
        /\ ~everEnabled => (status = "idle" /\ ~dataDefined)

\* C7 (amended): while the hook is mounted with enabled false, nothing is
\* started: no block-height query, no log query of an initial fetch or a
\* refetch, nothing at all by a call of refetch, and no timer is armed; a hook
\* that was never enabled is idle with no data and nothing in flight. (What was
\* in flight when enabled went false goes on: a tick's log query, a lookup.)
C7_DisabledHookStartsNothing ==
    (mounted # "unmounted" /\ ~enabled) =>
        /\ \A c \in calls :
            /\ c.kind # "getBlockNumber"
            /\ c.kind = "getLogs" => c.origin = "poll"
        /\ last.refetch => (calls = {} /\ ~last.ran)
        /\ timers = {}
        /\ ~everEnabled =>
            /\ status = "idle"
            /\ ~dataDefined
            /\ ops = EmptyBag
            /\ calls = {}

\* C7 witness: refetch has just been called on a hook that has watch on and
\* was never enabled.
C7_Witness ==
    /\ Live
    /\ ~enabled
    /\ ~everEnabled
    /\ watch
    /\ contract = "full"
    /\ last.refetch

\* C8: whichever lookups throw for whichever log, the fetch succeeds, every
\* log is returned, and a field is populated exactly when it was requested and
\* its lookup did not throw.
C8_LookupFailuresDegrade ==
    (pure.phase = "returned" /\ pure.rpcOk) =>
        /\ pure.result.err = "none"
        /\ Len(pure.result.events) = Len(pure.logs)
        /\ \A i \in 1..Len(pure.logs) :
            LET e == pure.result.events[i]
                failed == pure.fails[i]
            IN  /\ Key(e) = Key(pure.logs[i])
                /\ e.blockNumber = pure.logs[i].blockNumber
                /\ (e.blockData = "data")
                       <=> (pure.options.blockData /\ "block" \notin failed)
                /\ (e.transactionData = "data")
                       <=> (pure.options.transactionData /\ "transaction" \notin failed)
                /\ (e.receiptData = "data")
                       <=> (pure.options.receiptData /\ "receipt" \notin failed)
                /\ {e.blockData, e.transactionData, e.receiptData} \subseteq {"data", "null"}

\* C8 witness: all three lookups were requested, and for one log some threw
\* and some did not.
C8_Witness ==
    /\ pure.phase = "returned"
    /\ pure.rpcOk
    /\ pure.options = AllOptions
    /\ \E i \in 1..Len(pure.logs) : pure.fails[i] \notin {{}, Lookups}

\* C9: for an event name that is not in the ABI no log query is ever sent, and
\* a step in which fetchEvents ran leaves the not-found error in the error
\* field with status "error".
C9_UnknownEventFailsBeforeQuery ==
    ~eventInAbi =>
        /\ \A c \in calls : c.kind # "getLogs"
        /\ \A op \in OpsInFlight : op.phase \notin {"logs", "enrich"}
        /\ (last.ran /\ Live) => (error = "NotFound" /\ status = "error")

\* C9 witness: fetchEvents has just run for an event name the ABI lacks.
C9_Witness ==
    /\ Live
    /\ ~eventInAbi
    /\ last.ran
    /\ last.done = "NotFound"
    /\ error = "NotFound"

\* C10 (as claimed): every network call goes to the endpoint resolved for the
\* hook's chain id.
C10_CallsUseChainEndpoint ==
    \A c \in calls : c.endpoint = getProvider(chainId)

\* Fetched records whose key is not among the held ones.
NewRecords(prevData, processedEvents) ==
    {i \in 1..Len(processedEvents) : Key(processedEvents[i]) \notin Keys(prevData)}

\* C11: a merge lengthens the held sequence by exactly the number of fetched
\* records whose key was not yet held, and keeps the held records as its tail;
\* when every fetched key is already held, the sequence is left as it was.
C11_MergeAddsOnlyNewKeys ==
    (pure.phase = "merged") =>
        LET new == NewRecords(pure.prevData, pure.processedEvents)
            added == Len(pure.result) - Len(pure.prevData)
        IN  /\ added = Cardinality(new)
            /\ SubSeq(pure.result, added + 1, Len(pure.result)) = pure.prevData
            /\ new = {} => pure.result = pure.prevData

\* C11 witness: held records were merged with fetched records all of whose
\* keys were already held.
C11_Witness ==
    /\ pure.phase = "merged"
    /\ pure.prevDefined
    /\ Len(pure.processedEvents) > 1
    /\ Len(pure.prevData) > Len(pure.processedEvents)
    /\ NewRecords(pure.prevData, pure.processedEvents) = {}
    /\ pure.result = pure.prevData

\* The step is a mined call of fn (ledger is the state before it, ledger' the
\* state after it).
Called(fn) == ledger'.call.fn = fn

\* C12 (as claimed): a buy of one ether emits BuyTokens(buyer, 1e18, 100).
C12_OneEtherBuyEmitsHundred ==
    (ledger # <<>> /\ ledger.call.fn = "buyTokens" /\ ledger.call.ok
         /\ ledger.call.arg = WeiPerEther)
        => ledger.emitted = <<BuyTokensEvent(ledger.call.sender, WeiPerEther, 100)>>

\* C12 (amended): a buyTokens call with value v that succeeds moves v wei from
\* the caller to the Vendor and exactly v * tokensPerEth token units from the
\* Vendor to the caller, and emits BuyTokens(buyer, v, v * tokensPerEth): for
\* one ether that is 100 tokens, 100 * 10^18 units, and the event carries the
\* amount in units.
C12_BuyCreditsValueTimesRate ==
    [][(Called("buyTokens") /\ ledger'.call.ok) =>
          LET s == ledger'.call.sender
              v == ledger'.call.arg
              before == ledger.world
              after == ledger'.world
          IN  /\ after.tok[s] = before.tok[s] + v * tokensPerEth
              /\ after.tok[VendorAddress] = before.tok[VendorAddress] - v * tokensPerEth
              /\ after.eth[s] = before.eth[s] - v
              /\ after.eth[VendorAddress] = before.eth[VendorAddress] + v
              /\ ledger'.emitted = <<BuyTokensEvent(s, v, v * tokensPerEth)>>
              /\ v = WeiPerEther =>
                    ledger'.emitted[1].amountOfTokens = 100 * WeiPerEther]_vars

\* C12 witness: Alice has just bought with one ether and holds 100 tokens.
C12_Witness ==
    /\ ledger # <<>>
    /\ ledger.call = Tx("buyTokens", Alice, WeiPerEther, TRUE)
    /\ ledger.world.tok[Alice] = 100 * WeiPerEther
    /\ ledger.world.eth[VendorAddress] = WeiPerEther

\* C13 (as claimed): a sellTokens(amount) that succeeds raises the Vendor's
\* token holdings by amount and pays the caller exactly amount / tokensPerEth:
\* what is paid, times the rate, is what was taken.
C13_SellPaysExactly ==
    [][(Called("sellTokens") /\ ledger'.call.ok) =>
          LET s == ledger'.call.sender
              amount == ledger'.call.arg
              paid == ledger'.world.eth[s] - ledger.world.eth[s]
          IN  /\ ledger'.world.tok[VendorAddress]
                     = ledger.world.tok[VendorAddress] + amount
              /\ paid * tokensPerEth = amount]_vars

\* C14: withdraw called by an account that is not the owner reverts, and every
\* balance is as before the call.
C14_NonOwnerWithdrawReverts ==
    [][(Called("withdraw") /\ ledger'.call.sender # ledger.world.owner) =>
          /\ ~ledger'.call.ok
          /\ ledger'.world = ledger.world
          /\ ledger'.emitted = <<>>]_vars

\* C14 witness: an account that is not the owner has just called withdraw
\* while the Vendor held ether, and the ether is still there.
C14_Witness ==
    /\ ledger # <<>>
    /\ ledger.call.fn = "withdraw"
    /\ ledger.call.sender # ledger.world.owner
    /\ ~ledger.call.ok
    /\ ledger.world.eth[VendorAddress] > 0

\* C15: a call fails in each of the listed cases, and a call that fails
\* changes no ether balance, token balance or allowance and emits nothing.
C15_FailedCallChangesNothing ==
    [][LET s == ledger'.call.sender
           arg == ledger'.call.arg
           before == ledger.world
       IN  /\ (Called("buyTokens") /\ before.tok[VendorAddress] < arg * tokensPerEth)
                  => ~ledger'.call.ok
           /\ (Called("sellTokens")
                   /\ (\/ before.allowance[s] < arg
                       \/ before.tok[s] < arg
                       \/ before.eth[VendorAddress] < arg \div tokensPerEth))
                  => ~ledger'.call.ok
           /\ (Called("withdraw") /\ s # before.owner) => ~ledger'.call.ok
           /\ ~ledger'.call.ok =>
                  (ledger'.world = before /\ ledger'.emitted = <<>>)]_vars

\* C15 witness: a sale has just failed for want of ether in the Vendor, the
\* seller holding the tokens and the allowance for it.
C15_Witness ==
    /\ ledger # <<>>
    /\ ledger.call.fn = "sellTokens"
    /\ ~ledger.call.ok
    /\ ledger.world.allowance[ledger.call.sender] >= ledger.call.arg
    /\ ledger.world.tok[ledger.call.sender] >= ledger.call.arg
    /\ ledger.world.eth[VendorAddress] < ledger.call.arg \div tokensPerEth

\* C16: withdraw called by the owner succeeds and moves the Vendor's whole
\* ether balance to the owner; no other ether balance, no token balance and no
\* allowance changes.
C16_OwnerWithdrawSweeps ==
    [][(Called("withdraw") /\ ledger'.call.sender = ledger.world.owner) =>
          LET o == ledger.world.owner
              before == ledger.world
              after == ledger'.world
          IN  /\ ledger'.call.ok
              /\ after.eth[VendorAddress] = 0
              /\ after.eth[o] = before.eth[o] + before.eth[VendorAddress]
              /\ \A u \in Users \ {o} : after.eth[u] = before.eth[u]
              /\ after.tok = before.tok
              /\ after.allowance = before.allowance
              /\ after.owner = o]_vars

\* C16 witness: the owner has just swept ether that buyers had paid, while
\* buyers hold tokens.
C16_Witness ==
    /\ ledger # <<>>
    /\ ledger.call.fn = "withdraw"
    /\ ledger.call.ok
    /\ ledger.world.eth[VendorAddress] = 0
    /\ ledger.world.eth[ledger.world.owner] > WeiPerEther
    /\ ledger.world.tok[Alice] > 0

\* C17 (as claimed): a tick that finds the chain at a height whose logs a
\* completed fetch has already stored, with no fetch in flight, issues no log
\* query.
C17_TickAtFetchedHeightIsSilent ==
    [][(/\ mounted = "mounted"
        /\ \A op \in BagToSet(ops) : op.kind = "tick"
        /\ status = "success"
        /\ \E i \in 1..Len(data) : data[i].blockNumber = head)
          => \A c \in calls' : ~(c.kind = "getLogs" /\ c.origin = "poll")]_vars

\* Newest first: descending by block number, then by log index.
Newer(a, b) ==
    \/ a.blockNumber > b.blockNumber
    \/ a.blockNumber = b.blockNumber /\ a.logIndex > b.logIndex

\* C18 (as claimed): in every reachable state the data sequence is ordered
\* newest first.
C18_NewestFirst ==
    \A i, j \in 1..Len(data) : i < j => Newer(data[i], data[j])

\* C19 (as claimed): with the configuration fixed (every fetch in flight is for
\* the current fromBlock, and so is every record held), a step never removes a
\* record from data.
C19_NoRecordLost ==
    [][(/\ mounted = "mounted"
        /\ mounted' = "mounted"
        /\ fromBlock' = fromBlock
        /\ \A op \in BagToSet(ops) : op.from = fromBlock
        /\ \A i \in 1..Len(data) : data[i].blockNumber >= fromBlock)
          => Keys(data) \subseteq Keys(data')]_vars

\* C20: once the hook is unmounted no step changes data, status, error or the
\* loading flags: a fetch that was in flight runs to its end and its result is
\* dropped.
C20_UnmountedResultDiscarded ==
    [][mounted = "unmounted"
          => UNCHANGED <<data, dataDefined, status, error, isLoading,
                         isFetchingNewEvent, currentBlock>>]_vars

\* C20 witness: a fetch has just come to its successful end after the unmount,
\* with logs on the chain, and the hook's data is still undefined.
C20_Witness ==
    /\ mounted = "unmounted"
    /\ last.done = "success"
    /\ head > 0
    /\ ~dataDefined
    /\ status = "idle"

\* The value a filters object gives for a parameter name, "null" for none.
Wanted(filters, name) ==
    IF \E i \in 1..Len(filters) : filters[i][1] = name
    THEN filters[CHOOSE i \in 1..Len(filters) : filters[i][1] = name][2]
    ELSE "null"

\* C21 (as claimed): for every filters object, the topic sent for each indexed
\* input is the value of the entry with that input's name, and is open for an
\* input without an entry.
C21_FiltersConstrainByName ==
    (pure.phase = "sent") =>
        \A k \in 1..Len(EventInputs) :
            pure.topics[k] = Wanted(pure.filters, EventInputs[k])

\* C22 (as claimed): in every state of a mounted hook, status "success" comes
\* with a null error and status "error" with an error.
C22_StatusMatchesError ==
    (mounted = "mounted") =>
        /\ status = "success" => error = "null"
        /\ status = "error" => error # "null"

\* C23 (as claimed): in every state of a mounted hook with no poll fetch in
\* flight, isFetchingNewEvent is false.
C23_FetchingNewOnlyWhilePolling ==
    (mounted = "mounted" /\ ~\E op \in BagToSet(ops) : op.kind = "poll")
        => ~isFetchingNewEvent

\* C24 (as claimed): in every state of a mounted hook, isLoading is true
\* exactly when an initial fetch or a refetch is in flight.
C24_LoadingIffFullFetchInFlight ==
    (mounted = "mounted") =>
        (isLoading <=> \E op \in BagToSet(ops) : op.kind \in {"initial", "refetch"})

\* Tokens the Vendor has sold and not bought back: all tokens in circulation
\* come from the Vendor's stock.
Outstanding(w) == w.tok[Deployer] + w.tok[Alice]

\* The Vendor's ether covers the tokens outstanding at the rate.
Solvent(w) == w.eth[VendorAddress] * tokensPerEth >= Outstanding(w)

\* C25 (as claimed): after any sequence of buyTokens, sellTokens and withdraw
\* calls the Vendor's ether covers the tokens outstanding.
C25_AlwaysSolvent == Solvent(ledger.world)

\* C25 (amended): every call other than a withdraw by the owner keeps the
\* Vendor solvent, and while it is solvent a holder who sells tokens they hold
\* and have approved is paid. (A withdraw by the owner takes the backing away.)
C25_SolventUntilWithdrawn ==
    [][Solvent(ledger.world) =>
          /\ ~(Called("withdraw") /\ ledger'.call.ok) => Solvent(ledger'.world)
          /\ (/\ Called("sellTokens")
              /\ ledger.world.allowance[ledger'.call.sender] >= ledger'.call.arg
              /\ ledger.world.tok[ledger'.call.sender] >= ledger'.call.arg)
                 => ledger'.call.ok]_vars

\* C25 witness: a holder has just sold back part of the tokens bought, at an
\* amount that is not a multiple of the rate, and the Vendor still covers the
\* rest.
C25_Witness ==
    /\ ledger.call.fn = "sellTokens"
    /\ ledger.call.ok
    /\ ledger.call.arg % tokensPerEth # 0
    /\ Outstanding(ledger.world) > 0
    /\ Solvent(ledger.world)

====
